---- MODULE Spec2Model ----
(***************************************************************************)
(* RegAllocRunner._compile_fn                                              *)
(* (src/compiler_opt/rl/regalloc/regalloc_runner.py) as a state machine:   *)
(* one run of the function, from the call to the point where a result or   *)
(* an exception reaches the caller (or the program is aborted).            *)
(***************************************************************************)
EXTENDS Integers, Sequences, FiniteSets, TLC

VARIABLES
  file_paths,        \* argument: tuple of input paths
  tf_policy_path,    \* argument: "" when no policy is given
  reward_only,       \* argument
  launcher_path,     \* self._launcher_path, "" when not configured
  cancelled,         \* the cancellation manager has been signalled
  pc,                \* position of the run in _compile_fn
  working_dir_path,  \* local working_dir: the path mkdtemp returned, "" before
  tmp_dirs,          \* the temporary directories that exist, each with the
                     \* content of its file log
  command_line,      \* local command_line
  proc,              \* the process: "not_started", "running" or how it ended
  sequence_example,  \* fields of the Struct parsed from the log
  remaining,         \* keys of sequence_example.fields not yet iterated
  result,            \* local result
  exc,               \* exception in flight when the finally clause is entered
  raised,            \* exception that reached the caller
  returned,          \* <<>>, or <<map>> once a map reached the caller
  peer_pc,           \* another run of _compile_fn, executing concurrently:
  peer_dir,          \*   its position, its working directory,
  peer_log,          \*   the log its process wrote
  peer_saw,          \*   and the log it read
  run_no,            \* 1, or 2 when the same request is run again
  first_log,         \* the log the process of run 1 wrote
  first_returned     \* what run 1 returned

peer_vars == <<peer_pc, peer_dir, peer_log, peer_saw>>
first_vars == <<run_no, first_log, first_returned>>
vars == <<file_paths, tf_policy_path, reward_only, launcher_path, cancelled,
          pc, working_dir_path, tmp_dirs, command_line, proc,
          sequence_example, remaining, result, exc, raised, returned,
          peer_vars, first_vars>>

-----------------------------------------------------------------------------
(* Bounds *)

MaxPaths == 4   \* longest file_paths tuple tried
MaxKeys == 2    \* keys in a log container
MaxFeat == 2    \* features in one feature list
MaxVals == 2    \* values in one float_list
MaxDirs == 2    \* names mkdtemp can choose from

PathName(i) ==
  CASE i = 1 -> "module.bc"
    [] i = 2 -> "module.cmd"
    [] i = 3 -> "module.thinlto.bc"
    [] OTHER -> "extra"
AllPaths == [i \in 1..MaxPaths |-> PathName(i)]
Keys == 1..MaxKeys
Floats == {1, 2}

SeqsUpTo(S, n) == UNION {[1..m -> S] : m \in 0..n}

-----------------------------------------------------------------------------
(* Values *)

NoExc == "none"
None == <<>>
Some(x) == <<x>>
EmptyMap == [k \in {} |-> 0]

\* One element of argv: the text opt followed by the text arg.
Arg(opt, arg) == [opt |-> opt, arg |-> arg]

\* A tf.train.SequenceExample: its context, whether the feature_lists field
\* is set, and feature_lists.feature_list (name -> sequence of features, a
\* feature being the sequence float_list.value).
Trace(ctx, has, fl) ==
  [context |-> ctx, has_feature_lists |-> has, feature_list |-> fl]

NoFeatureLists == [n \in {} |-> <<>>]
ObsList == << <<1>> >>

\* Traces with feature_lists set, over the reward lists rls and contexts ctxs.
TracesWith(ctxs, names, rls) ==
  {Trace(c, TRUE, [n \in D |-> IF n = "reward" THEN r ELSE ObsList]) :
     c \in ctxs, D \in SUBSET names, r \in rls}

\* A payload of the container: <<>> when base64/protobuf decoding of it
\* raises, <<e>> when it decodes to the SequenceExample e.
Undecodable == <<>>
Payloads(traces) == {Undecodable} \cup {Some(e) : e \in traces}

\* Payload classes the loop of lines 110-122 tells apart, for the logs a
\* process writes: no feature lists; feature lists without a "reward" list;
\* an empty "reward" list; a last reward feature without floats; rewards.
LogRewardLists ==
  { <<>>, << <<>> >>, << <<1>> >>, << <<1>>, <<2>> >>, << <<2>>, <<1, 2>> >> }
LogTraces ==
  {Trace(1, FALSE, NoFeatureLists)} \cup TracesWith({1}, {"reward"}, LogRewardLists)

\* All traces within MaxFeat and MaxVals, with and without another list.
FeatureValues == SeqsUpTo(Floats, MaxVals)
RewardLists == SeqsUpTo(FeatureValues, MaxFeat)
AllTraces ==
  {Trace(c, FALSE, NoFeatureLists) : c \in {0, 1}}
    \cup TracesWith({0, 1}, {"reward", "obs"}, RewardLists)

\* The log file: absent, not parseable as a Struct, or a Struct with the
\* given fields.  A file of zero bytes is the serialization of the Struct
\* without fields, so it is the container with fields = EmptyMap.
LogAbsent == [kind |-> "absent", fields |-> EmptyMap]
LogGarbage == [kind |-> "garbage", fields |-> EmptyMap]
LogContainer(f) == [kind |-> "container", fields |-> f]
Containers(payloads) ==
  {LogContainer(f) : f \in UNION {[D -> payloads] : D \in SUBSET Keys}}

-----------------------------------------------------------------------------
(* The temporary directories *)

DirName(i) == "tmp" \o ToString(i)
DirNames == {DirName(i) : i \in 1..MaxDirs}
NoDirs == [d \in {} |-> LogAbsent]

\* os.path.join(d, 'log')
LogPathOf(d) == d \o "/log"

\* The content of the file at path: absent when no existing directory has
\* it as its log.
FileAt(fs, path) ==
  IF \E d \in DOMAIN fs : LogPathOf(d) = path
    THEN fs[CHOOSE d \in DOMAIN fs : LogPathOf(d) = path]
    ELSE LogAbsent
\* Writing the file at path; nothing is written in a directory that does
\* not exist.
WriteFile(fs, path, content) ==
  [d \in DOMAIN fs |-> IF LogPathOf(d) = path THEN content ELSE fs[d]]
\* A new, empty directory d.
MakeDir(fs, d) ==
  [x \in (DOMAIN fs) \cup {d} |-> IF x = d THEN LogAbsent ELSE fs[x]]
\* d removed with what it holds.
RemoveTree(fs, d) == [x \in (DOMAIN fs) \ {d} |-> fs[x]]

\* The working directory of the run: not yet made, there, or gone.
working_dir ==
  IF working_dir_path = "" THEN "unset"
  ELSE IF working_dir_path \in DOMAIN tmp_dirs THEN "exists" ELSE "removed"
-----------------------------------------------------------------------------
(* Lines 77-83: unpacking file_paths *)

ValidArity(paths) == Len(paths) = 3 \/ Len(paths) = 2

input_ir_path(paths) == paths[1]
cmd_path(paths) == paths[2]
thinlto_index_path(paths) == IF Len(paths) = 3 THEN paths[3] ELSE ""

-----------------------------------------------------------------------------
(* Lines 87-100: the command line *)

clang_path == "clang"
\* Lines 74-75
log_path == LogPathOf(working_dir_path)
output_native_path == working_dir_path \o "/native"
\* The content of the file at log_path
log_file == FileAt(tmp_dirs, log_path)

\* compilation_runner.get_command_line_for_bundle: the base arguments, from
\* the command template, the module and the optional index.
GetCommandLineForBundle(cmd, ir, thinlto) ==
  << Arg("@", cmd), Arg("", ir) >>
    \o (IF thinlto # "" THEN << Arg("-fthinlto-index=", thinlto) >> ELSE << >>)

\* Faulty variant of CommandLine: the policy flag is appended even without
\* a policy.
CommandLinePolicyAlways(launcher, paths, policy) ==
  (IF launcher # "" THEN << Arg("", launcher) >> ELSE << >>)
    \o << Arg("", clang_path) >>
    \o GetCommandLineForBundle(cmd_path(paths), input_ir_path(paths),
                               thinlto_index_path(paths))
    \o << Arg("-mllvm", ""), Arg("-thinlto-assume-merged", ""),
          Arg("-mllvm", ""), Arg("-regalloc-enable-advisor=development", ""),
          Arg("-mllvm", ""), Arg("-regalloc-training-log=", log_path),
          Arg("-o", ""), Arg("", output_native_path) >>
    \o << Arg("-mllvm", ""), Arg("-regalloc-model=", policy) >>
\* Faulty variant of CommandLine: the launcher is put after the compiler.
CommandLineLauncherSecond(launcher, paths, policy) ==
  << Arg("", clang_path) >>
    \o (IF launcher # "" THEN << Arg("", launcher) >> ELSE << >>)
    \o GetCommandLineForBundle(cmd_path(paths), input_ir_path(paths),
                               thinlto_index_path(paths))
    \o << Arg("-mllvm", ""), Arg("-thinlto-assume-merged", ""),
          Arg("-mllvm", ""), Arg("-regalloc-enable-advisor=development", ""),
          Arg("-mllvm", ""), Arg("-regalloc-training-log=", log_path),
          Arg("-o", ""), Arg("", output_native_path) >>
    \o (IF policy # ""
          THEN << Arg("-mllvm", ""), Arg("-regalloc-model=", policy) >>
          ELSE << >>)
\* Lines 87-100.
CommandLine(launcher, paths, policy) ==
  (IF launcher # "" THEN << Arg("", launcher) >> ELSE << >>)
    \o << Arg("", clang_path) >>
    \o GetCommandLineForBundle(cmd_path(paths), input_ir_path(paths),
                               thinlto_index_path(paths))
    \o << Arg("-mllvm", ""), Arg("-thinlto-assume-merged", ""),
          Arg("-mllvm", ""), Arg("-regalloc-enable-advisor=development", ""),
          Arg("-mllvm", ""), Arg("-regalloc-training-log=", log_path),
          Arg("-o", ""), Arg("", output_native_path) >>
    \o (IF policy # ""
          THEN << Arg("-mllvm", ""), Arg("-regalloc-model=", policy) >>
          ELSE << >>)

\* The path the command line tells the compiler to write its log to.
LogFlagPath(cl) ==
  LET at == {i \in 1..Len(cl) : cl[i].opt = "-regalloc-training-log="}
  IN  IF at = {} THEN "" ELSE cl[CHOOSE i \in at : TRUE].arg

-----------------------------------------------------------------------------
(* Lines 110-122: one iteration of the loop over the container *)

\* Line 116, e.feature_lists.feature_list['reward']: reading a missing key
\* of the map yields an empty FeatureList.
RewardFeatureList(e) ==
  IF "reward" \in DOMAIN e.feature_list THEN e.feature_list["reward"] ELSE << >>

\* Lines 115-117 evaluate without IndexError: .feature[-1] needs a feature,
\* .float_list.value[0] needs a float in the last feature.
RewardIndexable(e) ==
  LET fl == RewardFeatureList(e)
  IN  Len(fl) > 0 /\ Len(fl[Len(fl)]) > 0

\* Faulty variant of RewardOf: value[-1] instead of value[0].
RewardLastValue(e) ==
  LET fl == RewardFeatureList(e)
  IN  fl[Len(fl)][Len(fl[Len(fl)])]
\* Lines 115-117: feature[-1].float_list.value[0]
RewardOf(e) ==
  LET fl == RewardFeatureList(e)
  IN  fl[Len(fl)][1]

\* Faulty variant of DelReward: feature_lists is cleared as a whole.
ClearFeatureLists(e) == [e EXCEPT !.feature_list = NoFeatureLists]
\* Line 121: del e.feature_lists.feature_list['reward']
DelReward(e) ==
  [e EXCEPT !.feature_list = [n \in (DOMAIN @) \ {"reward"} |-> @[n]]]

\* Faulty variant of Entry: reward_only is ignored.
EntryAlwaysTrace(e, r, ro) == << Some(DelReward(e)), r >>
\* Lines 118-122: the value stored under the key
Entry(e, r, ro) ==
  IF ro THEN << None, r >> ELSE << Some(DelReward(e)), r >>

Skip == [kind |-> "skip", exc |-> NoExc, value |-> << None, 0 >>]
Raise(x) == [kind |-> "raise", exc |-> x, value |-> << None, 0 >>]
Put(v) == [kind |-> "put", exc |-> NoExc, value |-> v]

\* Lines 111-122 for one payload: skip the key, raise, or store a value.
\* "PayloadDecodeError" is what line 112 raises on a payload that is not
\* base64 of a serialized SequenceExample (binascii.Error or DecodeError).
\* Faulty variant of LoopBody: a payload that does not decode is skipped.
LoopBodySkipUndecodable(payload, ro) ==
  IF payload = Undecodable THEN Skip
  ELSE LET e == payload[1]
       IN  IF ~e.has_feature_lists THEN Skip
           ELSE IF ~RewardIndexable(e) THEN Raise("IndexError")
           ELSE Put(Entry(e, RewardOf(e), ro))
\* Faulty variant of LoopBody: line 113-114 missing, reward defaulting to 0.
LoopBodyNoSkip(payload, ro) ==
  IF payload = Undecodable THEN Raise("PayloadDecodeError")
  ELSE LET e == payload[1]
       IN  IF ~e.has_feature_lists THEN Put(Entry(e, 0, ro))
           ELSE IF ~RewardIndexable(e) THEN Raise("IndexError")
           ELSE Put(Entry(e, RewardOf(e), ro))
\* Faulty variant of LoopBody: with reward_only, a reward that cannot be
\* read skips the key.
LoopBodyLenientRewardOnly(payload, ro) ==
  IF payload = Undecodable THEN Raise("PayloadDecodeError")
  ELSE LET e == payload[1]
       IN  IF ~e.has_feature_lists THEN Skip
           ELSE IF ~RewardIndexable(e)
                  THEN (IF ro THEN Skip ELSE Raise("IndexError"))
           ELSE Put(Entry(e, RewardOf(e), ro))
\* Faulty variant of LoopBody: a trace without a "reward" list gets reward 0.
LoopBodyDefaultReward(payload, ro) ==
  IF payload = Undecodable THEN Raise("PayloadDecodeError")
  ELSE LET e == payload[1]
       IN  IF ~e.has_feature_lists THEN Skip
           ELSE IF "reward" \notin DOMAIN e.feature_list
                  THEN Put(Entry(e, 0, ro))
           ELSE IF ~RewardIndexable(e) THEN Raise("IndexError")
           ELSE Put(Entry(e, RewardOf(e), ro))
\* Lines 111-122.
LoopBody(payload, ro) ==
  IF payload = Undecodable THEN Raise("PayloadDecodeError")
  ELSE LET e == payload[1]
       IN  IF ~e.has_feature_lists THEN Skip
           ELSE IF ~RewardIndexable(e) THEN Raise("IndexError")
           ELSE Put(Entry(e, RewardOf(e), ro))

\* Faulty variant of Store: the earlier entries are dropped.
StoreOnlyLast(map, key, value) ==
  [k \in {key} |-> value]
\* result[key] = value
Store(map, key, value) ==
  [k \in (DOMAIN map) \cup {key} |-> IF k = key THEN value ELSE map[k]]

-----------------------------------------------------------------------------
(* Lines 124-127: what reaches the caller *)

\* Faulty variant of Leave: result is handed over along with the exception.
LeaveWithPartial(x, map) ==
  [raised |-> x, returned |-> Some(map)]
\* The finally clause has run without raising: the exception in flight
\* propagates, or line 127 returns result.
Leave(x, map) ==
  IF x = NoExc THEN [raised |-> NoExc, returned |-> Some(map)]
               ELSE [raised |-> x, returned |-> None]

\* tf.io.gfile.rmtree raised inside the finally clause: its exception
\* replaces whatever was in flight, and line 127 is not reached.
LeaveFromRmtreeError(x, map) ==
  [raised |-> "RmtreeError", returned |-> None]
-----------------------------------------------------------------------------
(* The run *)

Init ==
  /\ file_paths \in {SubSeq(AllPaths, 1, n) : n \in 0..MaxPaths}
  /\ tf_policy_path \in {"", "policy"}
  /\ reward_only \in BOOLEAN
  /\ launcher_path \in {"", "launcher"}
  /\ cancelled = FALSE
  /\ pc = "start"
  /\ working_dir_path = ""
  /\ tmp_dirs = NoDirs
  /\ command_line = << >>
  /\ proc = "not_started"
  /\ sequence_example = EmptyMap
  /\ remaining = {}
  /\ result = EmptyMap
  /\ exc = NoExc
  /\ raised = NoExc
  /\ returned = None
  /\ peer_pc = "idle"
  /\ peer_dir = ""
  /\ peer_log = LogAbsent
  /\ peer_saw = LogAbsent
  /\ run_no = 1
  /\ first_log = LogAbsent
  /\ first_returned = None

\* Faulty variant of Mkdtemp: one fixed directory, made if it is not there.
MkdtempFixedName ==
  /\ pc = "start"
  /\ working_dir_path' = DirName(1)
  /\ tmp_dirs' = IF DirName(1) \in DOMAIN tmp_dirs THEN tmp_dirs
                 ELSE MakeDir(tmp_dirs, DirName(1))
  /\ pc' = "unpack"
  /\ UNCHANGED <<peer_vars, first_vars>>
  /\ UNCHANGED <<file_paths, tf_policy_path, reward_only, launcher_path,
                 cancelled, command_line, proc, sequence_example,
                 remaining, result, exc, raised, returned>>

\* Line 72: working_dir = tempfile.mkdtemp(), a new directory under a name
\* no existing directory has
Mkdtemp ==
  /\ pc = "start"
  /\ \E d \in DirNames \ DOMAIN tmp_dirs :
       /\ working_dir_path' = d
       /\ tmp_dirs' = MakeDir(tmp_dirs, d)
  /\ pc' = "unpack"
  /\ UNCHANGED <<peer_vars, first_vars>>
  /\ UNCHANGED <<file_paths, tf_policy_path, reward_only, launcher_path,
                 cancelled, command_line, proc, sequence_example,
                 remaining, result, exc, raised, returned>>

\* Lines 77-81 and 85: the tuple has 2 or 3 paths; result = {}
UnpackPaths ==
  /\ pc = "unpack"
  /\ ValidArity(file_paths)
  /\ result' = EmptyMap
  /\ pc' = "build"
  /\ UNCHANGED <<peer_vars, first_vars>>
  /\ UNCHANGED <<file_paths, tf_policy_path, reward_only, launcher_path,
                 cancelled, working_dir_path, tmp_dirs, command_line, proc,
                 sequence_example, remaining, exc, raised, returned>>

\* Lines 82-83: logging.fatal logs and aborts the program; the statement is
\* outside the try, so the finally clause does not run.
LoggingFatal ==
  /\ pc = "unpack"
  /\ ~ValidArity(file_paths)
  /\ raised' = "Fatal"
  /\ pc' = "aborted"
  /\ UNCHANGED <<peer_vars, first_vars>>
  /\ UNCHANGED <<file_paths, tf_policy_path, reward_only, launcher_path,
                 cancelled, working_dir_path, tmp_dirs, command_line, proc,
                 sequence_example, remaining, result, exc, returned>>

\* Lines 87-100
BuildCommandLine ==
  /\ pc = "build"
  /\ command_line' = CommandLine(launcher_path, file_paths, tf_policy_path)
  /\ pc' = "execute"
  /\ UNCHANGED <<peer_vars, first_vars>>
  /\ UNCHANGED <<file_paths, tf_policy_path, reward_only, launcher_path,
                 cancelled, working_dir_path, tmp_dirs, proc, sequence_example,
                 remaining, result, exc, raised, returned>>

\* Lines 101-103: start_cancellable_process starts the process ...
StartProcess ==
  /\ pc = "execute"
  /\ proc' = "running"
  /\ pc' = "wait"
  /\ UNCHANGED <<peer_vars, first_vars>>
  /\ UNCHANGED <<file_paths, tf_policy_path, reward_only, launcher_path,
                 cancelled, working_dir_path, tmp_dirs, command_line,
                 sequence_example, remaining, result, exc, raised, returned>>

\* ... the cancellation manager is signalled from outside while it waits ...
Cancel ==
  /\ pc = "wait"
  /\ ~cancelled
  /\ cancelled' = TRUE
  /\ UNCHANGED <<peer_vars, first_vars>>
  /\ UNCHANGED <<file_paths, tf_policy_path, reward_only, launcher_path, pc,
                 working_dir_path, tmp_dirs, command_line, proc,
                 sequence_example,
                 remaining, result, exc, raised, returned>>

\* ... and returns when the process has exited with status 0, having
\* written whatever it wrote at the path of the log flag ...
ProcessSucceeds ==
  /\ pc = "wait"
  /\ ~cancelled
  /\ run_no = 1
  /\ \E log \in {LogAbsent, LogGarbage} \cup Containers(Payloads(LogTraces)) :
       /\ tmp_dirs' = WriteFile(tmp_dirs, LogFlagPath(command_line), log)
       /\ first_log' = log
  /\ proc' = "Success"
  /\ pc' = "read_log"
  /\ UNCHANGED <<peer_vars, run_no, first_returned>>
  /\ UNCHANGED <<file_paths, tf_policy_path, reward_only, launcher_path,
                 cancelled, working_dir_path, command_line, sequence_example,
                 remaining, result, exc, raised, returned>>

\* ... the same, when the request is run again: without a policy the
\* compiler is deterministic and writes the bytes it wrote in run 1, with a
\* policy its decisions may also lead to other bytes
AgainLogs(policy, log) ==
  IF policy = "" THEN {log} ELSE {log, LogContainer(EmptyMap)}
ProcessSucceedsAgain ==
  /\ pc = "wait"
  /\ ~cancelled
  /\ run_no = 2
  /\ \E log \in AgainLogs(tf_policy_path, first_log) :
       tmp_dirs' = WriteFile(tmp_dirs, LogFlagPath(command_line), log)
  /\ proc' = "Success"
  /\ pc' = "read_log"
  /\ UNCHANGED <<peer_vars, first_vars>>
  /\ UNCHANGED <<file_paths, tf_policy_path, reward_only, launcher_path,
                 cancelled, working_dir_path, command_line, sequence_example,
                 remaining, result, exc, raised, returned>>

\* ... or raises: killed on cancellation, timed out, or nonzero exit.
ProcessFailures == IF cancelled THEN {"ProcessKilled"}
                   ELSE {"ProcessTimedOut", "ProcessFailed"}
ProcessFails ==
  /\ pc = "wait"
  /\ \E kind \in ProcessFailures :
       /\ proc' = kind
       /\ exc' = kind
  /\ \E log \in {LogAbsent, LogGarbage} :
       tmp_dirs' = WriteFile(tmp_dirs, LogFlagPath(command_line), log)
  /\ pc' = "finally"
  /\ UNCHANGED <<peer_vars, first_vars>>
  /\ UNCHANGED <<file_paths, tf_policy_path, reward_only, launcher_path,
                 cancelled, working_dir_path, command_line, sequence_example,
                 remaining, result, raised, returned>>

\* Faulty variant of ParseLog: a file of zero bytes is refused.
ParseLogRefusingEmpty(file) ==
  CASE file.kind = "absent" ->
         [exc |-> "FileNotFoundError", fields |-> EmptyMap]
    [] file.kind = "garbage" \/ file.fields = EmptyMap ->
         [exc |-> "LogDecodeError", fields |-> EmptyMap]
    [] OTHER -> [exc |-> NoExc, fields |-> file.fields]
\* Lines 107-108: io.open raises on a missing file, ParseFromString raises
\* DecodeError on bytes that are no Struct, and yields the fields otherwise
\* (none for a file of zero bytes).
ParseLog(file) ==
  CASE file.kind = "absent" ->
         [exc |-> "FileNotFoundError", fields |-> EmptyMap]
    [] file.kind = "garbage" ->
         [exc |-> "LogDecodeError", fields |-> EmptyMap]
    [] OTHER -> [exc |-> NoExc, fields |-> file.fields]

\* Lines 105-108: open the log and parse it as a Struct
ReadLog ==
  /\ pc = "read_log"
  /\ LET parsed == ParseLog(FileAt(tmp_dirs, log_path))
     IN  IF parsed.exc # NoExc
           THEN /\ exc' = parsed.exc
                /\ pc' = "finally"
                /\ UNCHANGED <<sequence_example, remaining>>
           ELSE /\ sequence_example' = parsed.fields
                /\ remaining' = DOMAIN parsed.fields
                /\ pc' = "loop"
                /\ UNCHANGED exc
  /\ UNCHANGED <<peer_vars, first_vars>>
  /\ UNCHANGED <<file_paths, tf_policy_path, reward_only, launcher_path,
                 cancelled, working_dir_path, tmp_dirs, command_line, proc,
                 result, raised, returned>>

\* Faulty variant of LoopIteration: an exception of the body is noted and
\* the loop goes on.
LoopIterationGoingOn ==
  /\ pc = "loop"
  /\ \E key \in remaining :
       LET step == LoopBody(sequence_example[key], reward_only)
       IN  /\ remaining' = remaining \ {key}
           /\ CASE step.kind = "skip" ->
                     UNCHANGED <<result, exc, pc>>
                [] step.kind = "raise" ->
                     /\ exc' = step.exc
                     /\ UNCHANGED <<result, pc>>
                [] OTHER ->
                     /\ result' = Store(result, key, step.value)
                     /\ UNCHANGED <<exc, pc>>
  /\ UNCHANGED <<peer_vars, first_vars>>
  /\ UNCHANGED <<file_paths, tf_policy_path, reward_only, launcher_path,
                 cancelled, working_dir_path, tmp_dirs, command_line, proc,
                 sequence_example, raised, returned>>

\* Lines 110-122: the next item of sequence_example.fields.items(), in
\* whatever order the map yields them
LoopIteration ==
  /\ pc = "loop"
  /\ \E key \in remaining :
       LET step == LoopBody(sequence_example[key], reward_only)
       IN  /\ remaining' = remaining \ {key}
           /\ CASE step.kind = "skip" ->
                     UNCHANGED <<result, exc, pc>>
                [] step.kind = "raise" ->
                     /\ exc' = step.exc
                     /\ pc' = "finally"
                     /\ UNCHANGED result
                [] OTHER ->
                     /\ result' = Store(result, key, step.value)
                     /\ UNCHANGED <<exc, pc>>
  /\ UNCHANGED <<peer_vars, first_vars>>
  /\ UNCHANGED <<file_paths, tf_policy_path, reward_only, launcher_path,
                 cancelled, working_dir_path, tmp_dirs, command_line, proc,
                 sequence_example, raised, returned>>

\* Line 110: the items are exhausted
LoopExit ==
  /\ pc = "loop"
  /\ remaining = {}
  /\ pc' = "finally"
  /\ UNCHANGED <<peer_vars, first_vars>>
  /\ UNCHANGED <<file_paths, tf_policy_path, reward_only, launcher_path,
                 cancelled, working_dir_path, tmp_dirs, command_line, proc,
                 sequence_example, remaining, result, exc, raised, returned>>

Deliver(out) ==
  /\ raised' = out.raised
  /\ returned' = out.returned
  /\ pc' = IF out.raised = NoExc THEN "returned" ELSE "raised"

\* Lines 124-127: rmtree removes the directory, then the exception in
\* flight propagates or result is returned
Rmtree ==
  /\ pc = "finally"
  /\ working_dir_path \in DOMAIN tmp_dirs
  /\ tmp_dirs' = RemoveTree(tmp_dirs, working_dir_path)
  /\ Deliver(Leave(exc, result))
  /\ UNCHANGED <<peer_vars, first_vars>>
  /\ UNCHANGED <<file_paths, tf_policy_path, reward_only, launcher_path,
                 cancelled, working_dir_path, command_line, proc, sequence_example, remaining,
                 result, exc>>

\* Line 125: rmtree raises (a filesystem error); the directory is still there
RmtreeFails ==
  /\ pc = "finally"
  /\ Deliver(LeaveFromRmtreeError(exc, result))
  /\ UNCHANGED <<peer_vars, first_vars>>
  /\ UNCHANGED <<file_paths, tf_policy_path, reward_only, launcher_path,
                 cancelled, working_dir_path, tmp_dirs, command_line, proc,
                 sequence_example, remaining, result, exc>>

Next ==
  \/ Mkdtemp
  \/ UnpackPaths
  \/ LoggingFatal
  \/ BuildCommandLine
  \/ StartProcess
  \/ Cancel
  \/ ProcessSucceeds
  \/ ProcessFails
  \/ ReadLog
  \/ LoopIteration
  \/ LoopExit
  \/ Rmtree
  \/ RmtreeFails

Spec == Init /\ [][Next]_vars
-----------------------------------------------------------------------------
(* The loop of lines 110-122 on every trace within MaxFeat and MaxVals:   *)
(* the run has read a container holding one key.                           *)

InitExtract ==
  /\ file_paths = SubSeq(AllPaths, 1, 2)
  /\ tf_policy_path = ""
  /\ reward_only \in BOOLEAN
  /\ launcher_path = ""
  /\ cancelled = FALSE
  /\ pc = "loop"
  /\ working_dir_path = DirName(1)
  /\ \E payload \in Payloads(AllTraces) :
       /\ tmp_dirs = [d \in {DirName(1)} |-> LogContainer([k \in {1} |-> payload])]
       /\ first_log = LogContainer([k \in {1} |-> payload])
       /\ sequence_example = [k \in {1} |-> payload]
  /\ command_line = CommandLine("", SubSeq(AllPaths, 1, 2), "")
  /\ proc = "Success"
  /\ remaining = {1}
  /\ result = EmptyMap
  /\ exc = NoExc
  /\ raised = NoExc
  /\ returned = None
  /\ peer_pc = "idle"
  /\ peer_dir = ""
  /\ peer_log = LogAbsent
  /\ peer_saw = LogAbsent
  /\ run_no = 1
  /\ first_returned = None

NextExtract ==
  \/ LoopIteration
  \/ LoopExit
  \/ Rmtree
  \/ RmtreeFails

SpecExtract == InitExtract /\ [][NextExtract]_vars
-----------------------------------------------------------------------------
(* A second run of _compile_fn executing concurrently, reduced to what it  *)
(* does to the temporary directories: it makes its directory (line 72),    *)
(* its process writes its log there (lines 95-103), it reads the log       *)
(* (line 107) and removes the directory (line 125), which it also does     *)
(* early when an exception sends it to the finally clause.                 *)

run_vars == <<file_paths, tf_policy_path, reward_only, launcher_path,
              cancelled, pc, working_dir_path, command_line, proc,
              sequence_example, remaining, result, exc, raised, returned>>

PeerLogs == {LogGarbage, LogContainer([k \in {1} |-> Undecodable])}

PeerMkdtemp ==
  /\ peer_pc = "idle"
  /\ \E d \in DirNames \ DOMAIN tmp_dirs :
       /\ peer_dir' = d
       /\ tmp_dirs' = MakeDir(tmp_dirs, d)
  /\ peer_pc' = "created"
  /\ UNCHANGED <<run_vars, first_vars, peer_log, peer_saw>>

PeerProcessWrites ==
  /\ peer_pc = "created"
  /\ \E log \in PeerLogs :
       /\ tmp_dirs' = WriteFile(tmp_dirs, LogPathOf(peer_dir), log)
       /\ peer_log' = log
  /\ peer_pc' = "written"
  /\ UNCHANGED <<run_vars, first_vars, peer_dir, peer_saw>>

PeerReadLog ==
  /\ peer_pc = "written"
  /\ peer_saw' = FileAt(tmp_dirs, LogPathOf(peer_dir))
  /\ peer_pc' = "read"
  /\ UNCHANGED <<run_vars, first_vars, tmp_dirs, peer_dir, peer_log>>

PeerRmtree ==
  /\ peer_pc \in {"created", "written", "read"}
  /\ tmp_dirs' = RemoveTree(tmp_dirs, peer_dir)
  /\ peer_pc' = IF peer_pc = "read" THEN "done" ELSE "failed"
  /\ UNCHANGED <<run_vars, first_vars, peer_dir, peer_log, peer_saw>>

InitConcurrent ==
  /\ Init
  /\ tf_policy_path = ""
  /\ launcher_path = ""
  /\ reward_only

NextConcurrent ==
  \/ Mkdtemp
  \/ UnpackPaths
  \/ LoggingFatal
  \/ BuildCommandLine
  \/ StartProcess
  \/ Cancel
  \/ ProcessSucceeds
  \/ ProcessFails
  \/ ReadLog
  \/ LoopIteration
  \/ LoopExit
  \/ Rmtree
  \/ RmtreeFails
  \/ PeerMkdtemp
  \/ PeerProcessWrites
  \/ PeerReadLog
  \/ PeerRmtree

SpecConcurrent == InitConcurrent /\ [][NextConcurrent]_vars

-----------------------------------------------------------------------------
(* The same request run a second time, after the first call has ended: the *)
(* locals start afresh (lines 72-85), the directories the first call left  *)
(* behind are still there.                                                 *)

StartSecondRun ==
  /\ run_no = 1
  /\ pc = "returned"
  /\ run_no' = 2
  /\ first_returned' = returned
  /\ pc' = "start"
  /\ cancelled' = FALSE
  /\ working_dir_path' = ""
  /\ command_line' = << >>
  /\ proc' = "not_started"
  /\ sequence_example' = EmptyMap
  /\ remaining' = {}
  /\ result' = EmptyMap
  /\ exc' = NoExc
  /\ raised' = NoExc
  /\ returned' = None
  /\ UNCHANGED <<peer_vars, first_log, tmp_dirs>>
  /\ UNCHANGED <<file_paths, tf_policy_path, reward_only, launcher_path>>

InitTwice ==
  /\ Init
  /\ Len(file_paths) = 2
  /\ launcher_path = ""
  /\ ~reward_only

NextTwice ==
  \/ Mkdtemp
  \/ UnpackPaths
  \/ BuildCommandLine
  \/ StartProcess
  \/ Cancel
  \/ ProcessSucceeds
  \/ ProcessSucceedsAgain
  \/ ProcessFails
  \/ ReadLog
  \/ LoopIteration
  \/ LoopExit
  \/ Rmtree
  \/ RmtreeFails
  \/ StartSecondRun

SpecTwice == InitTwice /\ [][NextTwice]_vars

-----------------------------------------------------------------------------
(* Vocabulary of the properties *)

Ended == {"returned", "raised", "aborted"}
ProcessFailureKinds == {"ProcessKilled", "ProcessTimedOut", "ProcessFailed"}

\* Lines 107-108 have produced the container sequence_example.
ContainerRead ==
  /\ pc \in {"loop", "finally", "returned", "raised"}
  /\ proc = "Success"
  /\ exc \notin {"FileNotFoundError", "LogDecodeError"}

\* The finally clause has run and rmtree raised in it.
RmtreeRaised == pc \in {"returned", "raised"} /\ working_dir = "exists"

Decodable(payload) == payload # Undecodable
HasFeatureLists(payload) == Decodable(payload) /\ payload[1].has_feature_lists
EmptyRewardList(payload) ==
  /\ HasFeatureLists(payload)
  /\ "reward" \in DOMAIN payload[1].feature_list
  /\ payload[1].feature_list["reward"] = << >>
NonEmptyRewardList(payload) ==
  /\ "reward" \in DOMAIN payload[1].feature_list
  /\ payload[1].feature_list["reward"] # << >>

RECURSIVE Flatten(_)
Flatten(fl) == IF fl = << >> THEN << >> ELSE Head(fl) \o Flatten(Tail(fl))
LastOf(seq) == seq[Len(seq)]

-----------------------------------------------------------------------------
\* C1: however a run ends (result, exception, or the abort on a bad tuple),
\* the working directory it created no longer exists at that point.
C1_DirRemovedOnEveryExit == pc \in Ended => working_dir # "exists"

\* C2: a run whose file_paths has a length other than 2 or 3 never has a
\* working directory and never starts a process.
C2_NothingCreatedOnBadArity ==
  ~ValidArity(file_paths) => working_dir = "unset" /\ proc = "not_started"

\* C3: the caller gets either the map of all the container's keys and no
\* exception, or an exception and no map; a map filled for some keys when an
\* exception arrives is not handed over, and nothing is handed over before
\* the run ends.
C3_CompleteMapOrFailure ==
  /\ pc = "returned" =>
       /\ raised = NoExc
       /\ returned = Some(result)
       /\ remaining = {}
       /\ DOMAIN result = {k \in DOMAIN sequence_example :
                             HasFeatureLists(sequence_example[k])}
  /\ pc \in {"raised", "aborted"} => raised # NoExc /\ returned = None
  /\ pc \notin Ended => raised = NoExc /\ returned = None
C3_Witness ==
  /\ pc = "raised"
  /\ exc \in {"IndexError", "PayloadDecodeError"}
  /\ result # EmptyMap
  /\ returned = None

\* C4: when the process ended killed, timed out or with a nonzero exit, the
\* caller gets exactly that failure, and the working directory is gone.
C4_ProcessFailurePropagates ==
  (pc \in Ended /\ proc \in ProcessFailureKinds) =>
    raised = proc /\ working_dir = "removed"

\* C5: when rmtree itself fails, the caller still gets the original outcome:
\* the exception that was in flight, or the map if there was none.
C5_CleanupFailureDoesNotMask ==
  RmtreeRaised =>
    /\ raised = exc
    /\ exc = NoExc => returned = Some(result)

\* C6: with reward_only, every entry of the returned map is (None, reward).
C6_RewardOnlyNoTrace ==
  (reward_only /\ returned # None) =>
    \A k \in DOMAIN returned[1] :
      /\ Len(returned[1][k]) = 2
      /\ returned[1][k][1] = None
      /\ returned[1][k][2] \in Floats
C6_Witness ==
  /\ reward_only
  /\ pc = "returned"
  /\ Cardinality(DOMAIN returned[1]) = MaxKeys

\* C7 as stated: without reward_only, every returned trace has no "reward"
\* list and the reward is the last value of the float sequence under the
\* "reward" list of the decoded trace.
C7_RewardIsLastFloat ==
  (~reward_only /\ returned # None) =>
    \A k \in DOMAIN returned[1] :
      /\ returned[1][k][1] # None
      /\ "reward" \notin DOMAIN returned[1][k][1][1].feature_list
      /\ returned[1][k][2] =
           LastOf(Flatten(sequence_example[k][1].feature_list["reward"]))

\* C7 amended: without reward_only, every returned trace has no "reward"
\* list and the reward is the first float of the last feature of the
\* "reward" list of the decoded trace.
C7_RewardIsFirstFloatOfLastFeature ==
  (~reward_only /\ returned # None) =>
    \A k \in DOMAIN returned[1] :
      /\ returned[1][k][1] # None
      /\ "reward" \notin DOMAIN returned[1][k][1][1].feature_list
      /\ returned[1][k][2] =
           LastOf(sequence_example[k][1].feature_list["reward"])[1]
C7_Witness ==
  /\ ~reward_only
  /\ pc = "returned"
  /\ 1 \in DOMAIN returned[1]
  /\ LET fl == sequence_example[1][1].feature_list["reward"]
     IN  /\ Len(fl) = 2
         /\ Len(fl[1]) > 0
         /\ Len(fl[2]) = 2
         /\ fl[1][1] # fl[2][1]
         /\ fl[2][1] # fl[2][2]

\* C8: when every payload decodes and every reward list present is not
\* empty, the keys of the returned map are exactly the container's keys
\* whose trace has feature lists.
C8_KeysAreTracesWithFeatureLists ==
  (/\ ContainerRead
   /\ returned # None
   /\ \A k \in DOMAIN sequence_example :
        /\ Decodable(sequence_example[k])
        /\ HasFeatureLists(sequence_example[k]) =>
             NonEmptyRewardList(sequence_example[k]))
  => DOMAIN returned[1] = {k \in DOMAIN sequence_example :
                             HasFeatureLists(sequence_example[k])}
C8_Witness ==
  /\ pc = "returned"
  /\ DOMAIN returned[1] # {}
  /\ \E k \in DOMAIN sequence_example :
       /\ ~HasFeatureLists(sequence_example[k])
       /\ k \notin DOMAIN returned[1]

C10_EmptyRewardFailsRun ==
  (ContainerRead /\ \E k \in DOMAIN sequence_example :
                      EmptyRewardList(sequence_example[k]))
  => /\ pc # "returned"
     /\ returned = None
     /\ pc = "raised" => working_dir = "removed"

\* The log the successful process left is a file of zero bytes: it parsed
\* to a Struct without fields.
ZeroByteLogRead == ContainerRead /\ sequence_example = EmptyMap
\* The log the successful process left was missing or not a Struct.
LogRefused == proc = "Success" /\ exc \in {"FileNotFoundError", "LogDecodeError"}

\* C11 as stated: after a successful process, a log file that is absent,
\* of zero bytes or not parseable fails the run: no map, not even an empty
\* one, is returned.
C11_AbsentEmptyGarbageFail ==
  (pc \in Ended /\ (LogRefused \/ ZeroByteLogRead)) =>
    pc = "raised" /\ returned = None

\* C11 amended: after a successful process, an absent log file raises
\* FileNotFoundError and an unparseable one DecodeError at lines 107-108,
\* the loop is not entered and no map is returned; a log file of zero bytes
\* parses as a container without keys, and the run returns the empty map
\* (unless the cleanup raises).
C11_AbsentGarbageFailEmptyReturns ==
  /\ (proc = "Success" /\ pc = "finally" /\ log_file.kind = "absent") =>
       exc = "FileNotFoundError"
  /\ (proc = "Success" /\ pc = "finally" /\ log_file.kind = "garbage") =>
       exc = "LogDecodeError"
  /\ LogRefused =>
       /\ pc \in {"finally", "raised"}
       /\ returned = None
       /\ sequence_example = EmptyMap /\ result = EmptyMap
  /\ (proc = "Success" /\ pc \in {"loop", "finally"}
        /\ log_file = LogContainer(EmptyMap)) =>
       exc = NoExc /\ ZeroByteLogRead
  /\ (ZeroByteLogRead /\ pc \in Ended /\ ~RmtreeRaised) =>
       pc = "returned" /\ returned = Some(EmptyMap)
C11_Witness ==
  /\ ZeroByteLogRead
  /\ pc = "returned"
  /\ returned = Some(EmptyMap)

-----------------------------------------------------------------------------
\* Positions of command_line holding the option opt.
Positions(cl, opt) == {i \in 1..Len(cl) : cl[i].opt = opt}
\* Positions of command_line holding the bare word w.
WordPositions(cl, w) == {i \in 1..Len(cl) : cl[i] = Arg("", w)}
CommandLineBuilt == pc \notin {"start", "unpack", "build", "aborted"}

\* C12: once built, for 2 and for 3 paths, with and without a launcher, the
\* command line holds exactly one log flag, naming the log path of the
\* working directory, and one policy flag naming the policy if a policy is
\* given, none otherwise.
C12_OneLogFlagAndPolicyFlagIffPolicy ==
  CommandLineBuilt =>
    /\ Cardinality(Positions(command_line, "-regalloc-training-log=")) = 1
    /\ \A i \in Positions(command_line, "-regalloc-training-log=") :
         command_line[i].arg = log_path
    /\ Cardinality(Positions(command_line, "-regalloc-model=")) =
         (IF tf_policy_path # "" THEN 1 ELSE 0)
    /\ \A i \in Positions(command_line, "-regalloc-model=") :
         command_line[i].arg = tf_policy_path
C12_Witness ==
  /\ pc = "execute"
  /\ Len(file_paths) = 3
  /\ launcher_path # ""
  /\ tf_policy_path # ""
  /\ Positions(command_line, "-regalloc-model=") # {}

\* C13: with a launcher, the command line starts with the launcher, the
\* compiler comes second and its arguments follow; without one, the
\* compiler comes first.
C13_LauncherFirstThenCompiler ==
  CommandLineBuilt =>
    IF launcher_path # ""
      THEN /\ WordPositions(command_line, launcher_path) = {1}
           /\ WordPositions(command_line, clang_path) = {2}
           /\ Positions(command_line, "-regalloc-training-log=") \subseteq
                3..Len(command_line)
      ELSE /\ WordPositions(command_line, clang_path) = {1}
           /\ Positions(command_line, "-regalloc-training-log=") \subseteq
                2..Len(command_line)
C13_Witness ==
  /\ pc = "execute"
  /\ launcher_path # ""
  /\ command_line[1] = Arg("", launcher_path)
  /\ command_line[2] = Arg("", clang_path)

-----------------------------------------------------------------------------
\* The stages in order; the process is started with the command line of
\* lines 87-100 complete, the log is read only after a successful process,
\* a key is extracted only from a parsed container, and an exception sends
\* the run to the finally clause with no later stage run.
StagesInOrder ==
  /\ proc # "not_started" =>
       /\ CommandLineBuilt
       /\ command_line = CommandLine(launcher_path, file_paths, tf_policy_path)
       /\ (tf_policy_path # "" =>
             Positions(command_line, "-regalloc-model=") # {})
  /\ (pc \in {"read_log", "loop"} \/ sequence_example # EmptyMap
        \/ remaining # {}) => proc = "Success"
  /\ result # EmptyMap => ContainerRead \/ (proc = "Success" /\ exc # NoExc)
  /\ exc # NoExc => pc \in {"finally", "raised"}
  /\ proc \in ProcessFailureKinds =>
       /\ exc = proc
       /\ sequence_example = EmptyMap /\ remaining = {} /\ result = EmptyMap
  /\ LogRefused => remaining = {} /\ result = EmptyMap
  /\ pc = "returned" => exc = NoExc /\ remaining = {}

\* C15 as stated: the stages run strictly one after the other, and
\* extraction begins only after decoding has completed: no key is stored
\* while a payload of the container is still to be decoded.
C15_ExtractionAfterAllDecoding ==
  /\ StagesInOrder
  /\ (pc = "loop" /\ result # EmptyMap) => remaining = {}

\* C15 amended: the stages run one after the other as StagesInOrder says,
\* and a key is stored only after the container has been parsed and the
\* payload of that key decoded; the payloads of the other keys are decoded
\* later, each in its own iteration of the loop.
C15_StagesLinearPerKeyDecoding ==
  /\ StagesInOrder
  /\ \A k \in DOMAIN result :
       /\ k \in DOMAIN sequence_example
       /\ k \notin remaining
       /\ Decodable(sequence_example[k])
C15_Witness ==
  /\ pc = "loop"
  /\ result # EmptyMap
  /\ \E k \in remaining : ~Decodable(sequence_example[k])

-----------------------------------------------------------------------------
\* What the loop yields for a container, reward_only aside.
LoopFails(fields) ==
  \E k \in DOMAIN fields :
    \/ ~Decodable(fields[k])
    \/ HasFeatureLists(fields[k]) /\ ~RewardIndexable(fields[k][1])
LoopDone == ContainerRead /\ pc \in {"finally", "returned", "raised"}

\* C17: whether the loop fails, which keys it stores and the reward of each
\* key are the same for both values of reward_only: they are given by the
\* container alone; reward_only decides only whether the trace of an entry
\* is None or the trace without its "reward" list.
C17_RewardOnlyChangesOnlyTrace ==
  LoopDone =>
    /\ exc # NoExc <=> LoopFails(sequence_example)
    /\ exc = NoExc =>
         /\ DOMAIN result = {k \in DOMAIN sequence_example :
                               HasFeatureLists(sequence_example[k])}
         /\ \A k \in DOMAIN result :
              /\ result[k][2] =
                   LastOf(sequence_example[k][1].feature_list["reward"])[1]
              /\ result[k][1] # None <=> ~reward_only
    /\ pc = "returned" => returned = Some(result)
C17_Witness ==
  /\ reward_only
  /\ pc = "finally"
  /\ ContainerRead
  /\ exc = "IndexError"
  /\ result # EmptyMap

\* C18: without reward_only, the returned trace of a key differs from the
\* decoded trace in the "reward" list alone: same context, and every other
\* feature list present and equal.
C18_OnlyRewardRemoved ==
  (~reward_only /\ returned # None) =>
    \A k \in DOMAIN returned[1] :
      LET t == returned[1][k][1][1]
          e == sequence_example[k][1]
      IN  /\ t.context = e.context
          /\ t.has_feature_lists = e.has_feature_lists
          /\ DOMAIN t.feature_list = (DOMAIN e.feature_list) \ {"reward"}
          /\ \A n \in DOMAIN t.feature_list :
               t.feature_list[n] = e.feature_list[n]
C18_Witness ==
  /\ ~reward_only
  /\ pc = "returned"
  /\ 1 \in DOMAIN returned[1]
  /\ returned[1][1][1][1].context = 1
  /\ "obs" \in DOMAIN returned[1][1][1][1].feature_list

\* C19: a trace with feature lists but without a "reward" list fails the
\* run like one with an empty "reward" list: no map is returned, the key is
\* never stored, and when that key is the one the loop stops at, the
\* exception is the IndexError of the empty list.
MissingRewardList(payload) ==
  HasFeatureLists(payload) /\ "reward" \notin DOMAIN payload[1].feature_list
C19_MissingRewardListFailsRun ==
  ContainerRead =>
    \A k \in DOMAIN sequence_example :
      MissingRewardList(sequence_example[k]) =>
        /\ pc # "returned"
        /\ returned = None
        /\ k \notin DOMAIN result
        /\ (/\ pc \in {"finally", "raised"}
            /\ \A j \in DOMAIN sequence_example \ {k} :
                 /\ Decodable(sequence_example[j])
                 /\ HasFeatureLists(sequence_example[j]) =>
                      RewardIndexable(sequence_example[j][1]))
           => exc = "IndexError"
C19_Witness ==
  /\ pc = "raised"
  /\ exc = "IndexError"
  /\ ~RmtreeRaised
  /\ result # EmptyMap
  /\ \E k \in DOMAIN sequence_example : MissingRewardList(sequence_example[k])
  /\ ~ \E k \in DOMAIN sequence_example : EmptyRewardList(sequence_example[k])

-----------------------------------------------------------------------------
LiveRun ==
  pc \in {"unpack", "build", "execute", "wait", "read_log", "loop", "finally"}
LivePeer == peer_pc \in {"created", "written", "read"}

\* C16: in every interleaving of two runs, each has one working directory,
\* the directories of two live runs differ, the only directories are those
\* of the runs, a live run's directory exists until the run removes it, and
\* the log a run reads is the log its own process wrote: the other run has
\* neither overwritten nor removed it.
C16_WorkingAreasNotShared ==
  /\ (LiveRun /\ LivePeer) => working_dir_path # peer_dir
  /\ DOMAIN tmp_dirs \subseteq {working_dir_path, peer_dir}
  /\ LiveRun => working_dir = "exists"
  /\ LivePeer => peer_dir \in DOMAIN tmp_dirs
  /\ (pc = "read_log" /\ proc = "Success") => log_file = first_log
  /\ ContainerRead => first_log = LogContainer(sequence_example)
  /\ LogRefused => first_log.kind \in {"absent", "garbage"}
  /\ peer_pc = "written" => FileAt(tmp_dirs, LogPathOf(peer_dir)) = peer_log
  /\ peer_pc \in {"read", "done"} => peer_saw = peer_log
C16_Witness ==
  /\ pc = "read_log"
  /\ proc = "Success"
  /\ log_file.kind = "container"
  /\ peer_pc = "written"
  /\ working_dir_path # peer_dir

-----------------------------------------------------------------------------
\* C14: when the request has no policy and is run twice, the second run's
\* process writing the log bytes the first run's wrote, then a second run
\* that returns a map returns the map the first run returned: the same
\* keys and, for each key, the same trace and the same reward.
C14_SecondRunReturnsSameMap ==
  (/\ run_no = 2
   /\ tf_policy_path = ""
   /\ first_returned # None
   /\ pc = "returned") => returned = first_returned
C14_Witness ==
  /\ run_no = 2
  /\ tf_policy_path = ""
  /\ pc = "returned"
  /\ first_returned # None
  /\ returned = first_returned
  /\ Cardinality(DOMAIN returned[1]) = 2

====
